---- MODULE Spec2Model ----
(***************************************************************************)
(* State-machine model of the Lovart dashboard page                        *)
(* (src/src/app/lovart/page.tsx): the load effect (project listing and     *)
(* credit bootstrap), and the project creation flow (handleGenerate).      *)
(* The hosted store and the auth provider are the environment: the store   *)
(* answers each request either truthfully from its rows or with an error.  *)
(* The page's string literals are Chinese; the model carries ASCII         *)
(* stand-ins, each named after the literal's place in the source.          *)
(***************************************************************************)
EXTENDS Integers, Sequences, FiniteSets, TLC

VARIABLES
    mounted,        \* the component has mounted and its first effect has run
    user,           \* useUser().user: NoUser or an identity
    supabase,       \* useSupabase(): 0 is null, n > 0 is the n-th handle object
    projects,       \* useState<Project[]>([])
    isLoading,      \* useState(true)
    credits,        \* useState<number | null>(null): None or Some(n)
    inputValue,     \* useState(''): a sequence of characters
    isGenerating,   \* useState(false)
    runs,           \* the invocations of loadData, in the order they started
    pendingInserts, \* project inserts awaited by an invocation of handleGenerate
    nextId,         \* the next value uuidv4() returns (ids never repeat)
    navigations,    \* the values assigned to window.location.href, in order
    lastAlert,      \* the argument of the last alert(), NoAlert if none yet
    creditRows,     \* store: rows of user_credits
    projectRows,    \* store: rows of projects, oldest update first
    lastOp          \* the handler or continuation that ran last

vars == <<mounted, user, supabase, projects, isLoading, credits, inputValue,
          isGenerating, runs, pendingInserts, nextId, navigations, lastAlert,
          creditRows, projectRows, lastOp>>

-----------------------------------------------------------------------------
(* Bounds of the model *)

\* invocations of loadData (the mount plus the re-runs of the effect)
MaxRuns == 2
\* length of the text typed into the prompt input
MaxLen == 2
\* invocations of handleGenerate that get as far as generating an id
MaxIds == 2

\* blanks typed before and after a long prompt
MaxPad == 1
\* characters a long prompt has beyond the title limit
MaxOver == 1

(* Program constants *)

DefaultCredits == 1000
TitleLimit == 50

Users == {"u1", "u2"}
NoUser == "anonymous"
Chars == {" ", "a"}
Messages == {"network error", "duplicate key"}
NoRowsCode == "PGRST116"
OtherCode == "PGRST301"
\* balances a credit record may already hold when the page loads
InitBalances == {0, 250}

NoAlert == "(none)"
AlertNotSignedIn == "please sign in first"
AlertNotReady == "system initialising, try again later"
CreateFailedPrefix == "create project failed: "
FallbackTitle == <<"untitled project">>

-----------------------------------------------------------------------------
(* JavaScript values *)

None == {}
Some(n) == {n}
TheValue(opt) == CHOOSE n \in opt : TRUE

\* opt || d on an optional number: null, undefined and 0 are falsy
OrDefault(opt, d) == IF opt = None \/ opt = Some(0) THEN d ELSE TheValue(opt)

IsSpace(c) == c = " "

RECURSIVE TrimStart(_)
TrimStart(s) ==
    IF s # <<>> /\ IsSpace(Head(s)) THEN TrimStart(Tail(s)) ELSE s

RECURSIVE TrimEnd(_)
TrimEnd(s) ==
    IF s # <<>> /\ IsSpace(s[Len(s)]) THEN TrimEnd(SubSeq(s, 1, Len(s) - 1)) ELSE s

\* trim left out: the raw text is tested and sent
TrimNothing(s) == s

\* String.prototype.trim
Trim(s) == TrimEnd(TrimStart(s))

Min(a, b) == IF a < b THEN a ELSE b

\* s.slice(0, n) for n >= 0
SliceTo(s, n) == SubSeq(s, 1, Min(n, Len(s)))

\* encodeURIComponent on the model's characters: a space becomes %20,
\* a letter is kept
EncodeURIComponent(s) ==
    [i \in 1..Len(s) |-> IF s[i] = " " THEN "%20" ELSE s[i]]

RECURSIVE Reverse(_)
Reverse(s) == IF s = <<>> THEN <<>> ELSE Append(Reverse(Tail(s)), Head(s))

RECURSIVE SelectRows(_, _)
SelectRows(rows, u) ==
    IF rows = <<>> THEN <<>>
    ELSE IF Head(rows).user_id = u
         THEN <<Head(rows)>> \o SelectRows(Tail(rows), u)
         ELSE SelectRows(Tail(rows), u)

\* all texts of at most n characters
Texts(n) == UNION {[1..k -> Chars] : k \in 0..n}

-----------------------------------------------------------------------------
(* The store, as the page's requests see it *)

PendingResult == [status |-> "pending", code |-> "", data |-> <<>>, credits |-> None]
OkProjects(rows) == [status |-> "ok", code |-> "", data |-> rows, credits |-> None]
OkCredits(n) == [status |-> "ok", code |-> "", data |-> <<>>, credits |-> Some(n)]
ErrorResult(c) == [status |-> "error", code |-> c, data |-> <<>>, credits |-> None]

\* from('projects').select('*').order('updated_at', {ascending: false}): the
\* rows the identity may see, most recently updated first, or an error
ProjectsReadResults(u) ==
    {OkProjects(Reverse(SelectRows(projectRows, u))), ErrorResult(OtherCode)}

\* from('user_credits').select('credits').eq('user_id', u).single(): the row's
\* credits, the no-rows error when there is no row, or another error
CreditsReadResults(u) ==
    LET mine == SelectRows(creditRows, u) IN
    (IF mine = <<>> THEN {ErrorResult(NoRowsCode)}
     ELSE {OkCredits(mine[1].credits)})
    \cup {ErrorResult(OtherCode)}

\* from('user_credits').insert(...): user_id is unique in user_credits, so the
\* insert succeeds only when the identity has no row; it may fail in any case
CreditInsertOutcomes(u) ==
    IF SelectRows(creditRows, u) = <<>> THEN {"ok", "error"} ELSE {"error"}

-----------------------------------------------------------------------------
(* The load effect: loadData *)

Op(name, n, msg) == [op |-> name, n |-> n, msg |-> msg]

NewRun(u, s, started) ==
    [user |-> u, handle |-> s, started |-> started,
     proj |-> PendingResult, cred |-> PendingResult, ins |-> "none",
     done |-> ~started]

\* the handle left untested
NotReadyUserOnly(u, s) == u = NoUser

\* if (!user || !supabase)
NotReady(u, s) == u = NoUser \/ s = 0

\* loadData up to its first await
LoadData(u, s) ==
    IF NotReady(u, s)
    THEN /\ isLoading' = FALSE
         /\ runs' = Append(runs, NewRun(u, s, FALSE))
    ELSE /\ runs' = Append(runs, NewRun(u, s, TRUE))
         /\ UNCHANGED isLoading

\* if (projectsResult.error) throw projectsResult.error
ProjectsErrorThrown(res) == res.status = "error"

\* the error code left unchecked: any failed read starts the bootstrap
BootstrapOnAnyError(res) == res.status = "error"

\* creditsResult.error && creditsResult.error.code === 'PGRST116'
ShouldBootstrap(res) == res.status = "error" /\ res.code = NoRowsCode

\* the else branch taken without testing the error: any result is adopted
CreditsAdoptedAlways(res) == TRUE

\* !creditsResult.error
CreditsReadOk(res) == res.status = "ok"

\* loadData after Promise.all has resolved, `run` holding both results
AfterPromiseAll(r, run) ==
    IF ProjectsErrorThrown(run.proj)
    THEN \* catch, finally
         /\ isLoading' = FALSE
         /\ runs' = [runs EXCEPT ![r] = [run EXCEPT !.done = TRUE]]
         /\ UNCHANGED <<projects, credits>>
    ELSE /\ projects' = run.proj.data
         /\ IF ShouldBootstrap(run.cred)
            THEN \* the insert is issued and awaited
                 /\ runs' = [runs EXCEPT ![r] = [run EXCEPT !.ins = "pending"]]
                 /\ UNCHANGED <<credits, isLoading>>
            ELSE /\ credits' = IF CreditsReadOk(run.cred)
                               THEN Some(OrDefault(run.cred.credits, 0))
                               ELSE credits
                 /\ isLoading' = FALSE
                 /\ runs' = [runs EXCEPT ![r] = [run EXCEPT !.done = TRUE]]

Settled(res) == res.status # "pending"

\* useEffect on mount
Mount ==
    /\ ~mounted
    /\ mounted' = TRUE
    /\ LoadData(user, supabase)
    /\ lastOp' = Op("Mount", Len(runs) + 1, "")
    /\ UNCHANGED <<user, supabase, projects, credits, inputValue, isGenerating,
                   pendingInserts, nextId, navigations, lastAlert, creditRows,
                   projectRows>>

\* the auth provider delivers another identity: the effect re-runs
UserChanged(u) ==
    /\ mounted
    /\ Len(runs) < MaxRuns
    /\ u # user
    /\ user' = u
    /\ LoadData(u, supabase)
    /\ lastOp' = Op("UserChanged", Len(runs) + 1, "")
    /\ UNCHANGED <<mounted, supabase, projects, credits, inputValue,
                   isGenerating, pendingInserts, nextId, navigations, lastAlert,
                   creditRows, projectRows>>

\* useSupabase() returns a new handle: the effect re-runs
SupabaseChanged ==
    /\ mounted
    /\ Len(runs) < MaxRuns
    /\ supabase' = supabase + 1
    /\ LoadData(user, supabase + 1)
    /\ lastOp' = Op("SupabaseChanged", Len(runs) + 1, "")
    /\ UNCHANGED <<mounted, user, projects, credits, inputValue, isGenerating,
                   pendingInserts, nextId, navigations, lastAlert, creditRows,
                   projectRows>>

\* the project listing read of run r settles
ProjectsReadSettle(r) ==
    /\ r \in 1..Len(runs)
    /\ runs[r].started /\ ~Settled(runs[r].proj)
    /\ \E res \in ProjectsReadResults(runs[r].user) :
         LET run == [runs[r] EXCEPT !.proj = res] IN
         IF Settled(run.cred)
         THEN AfterPromiseAll(r, run)
         ELSE /\ runs' = [runs EXCEPT ![r] = run]
              /\ UNCHANGED <<projects, credits, isLoading>>
    /\ lastOp' = Op("ProjectsReadSettle", r, "")
    /\ UNCHANGED <<mounted, user, supabase, inputValue, isGenerating,
                   pendingInserts, nextId, navigations, lastAlert, creditRows,
                   projectRows>>

\* the credit read of run r settles
CreditsReadSettle(r) ==
    /\ r \in 1..Len(runs)
    /\ runs[r].started /\ ~Settled(runs[r].cred)
    /\ \E res \in CreditsReadResults(runs[r].user) :
         LET run == [runs[r] EXCEPT !.cred = res] IN
         IF Settled(run.proj)
         THEN AfterPromiseAll(r, run)
         ELSE /\ runs' = [runs EXCEPT ![r] = run]
              /\ UNCHANGED <<projects, credits, isLoading>>
    /\ lastOp' = Op("CreditsReadSettle", r, "")
    /\ UNCHANGED <<mounted, user, supabase, inputValue, isGenerating,
                   pendingInserts, nextId, navigations, lastAlert, creditRows,
                   projectRows>>

\* const { data: newData } = await ...insert(...).select().single()
InsertedRow(u, outcome) ==
    IF outcome = "ok" THEN Some(DefaultCredits) ELSE None

\* setCredits(newData?.credits || 1000)
CreditsAfterInsert(newData) == Some(OrDefault(newData, DefaultCredits))

\* the credit insert of run r settles; loadData runs to its end
CreditInsertSettle(r) ==
    /\ r \in 1..Len(runs)
    /\ runs[r].ins = "pending"
    /\ \E outcome \in CreditInsertOutcomes(runs[r].user) :
         /\ creditRows' =
              IF outcome = "ok"
              THEN Append(creditRows,
                          [user_id |-> runs[r].user, credits |-> DefaultCredits])
              ELSE creditRows
         /\ credits' = CreditsAfterInsert(InsertedRow(runs[r].user, outcome))
         /\ runs' = [runs EXCEPT ![r] = [@ EXCEPT !.ins = outcome, !.done = TRUE]]
    /\ isLoading' = FALSE
    /\ lastOp' = Op("CreditInsertSettle", r, "")
    /\ UNCHANGED <<mounted, user, supabase, projects, inputValue, isGenerating,
                   pendingInserts, nextId, navigations, lastAlert, projectRows>>

-----------------------------------------------------------------------------
(* The project creation flow: handleGenerate *)

\* the in-flight flag left unchecked
RejectSubmitUnguarded(input, generating) == Trim(input) = <<>>

\* if (!inputValue.trim() || isGenerating) return
RejectSubmit(input, generating) == Trim(input) = <<>> \/ generating

\* slice and trim in the wrong order: inputValue.slice(0, 50).trim()
ProjectTitleSliceFirst(input) ==
    LET t == Trim(SliceTo(input, TitleLimit)) IN
    IF t = <<>> THEN FallbackTitle ELSE t

\* inputValue.trim().slice(0, 50) || fallback
ProjectTitle(input) ==
    LET t == SliceTo(Trim(input), TitleLimit) IN
    IF t = <<>> THEN FallbackTitle ELSE t

\* /lovart/canvas?id=${newProjectId}&prompt=${encodeURIComponent(inputValue.trim())}
CanvasUrl(id, input) == [id |-> id, prompt |-> EncodeURIComponent(Trim(input))]

\* the insert request, with what the closure of this invocation holds
InsertRequest(id, input, u) ==
    [id |-> id, title |-> ProjectTitle(input), input |-> input, user |-> u]

\* handleGenerate up to its first await
HandleGenerate ==
    IF RejectSubmit(inputValue, isGenerating)
    THEN UNCHANGED <<isGenerating, pendingInserts, nextId, lastAlert>>
    ELSE IF user = NoUser
    THEN /\ lastAlert' = AlertNotSignedIn
         /\ UNCHANGED <<isGenerating, pendingInserts, nextId>>
    ELSE IF supabase = 0
    THEN /\ lastAlert' = AlertNotReady
         /\ UNCHANGED <<isGenerating, pendingInserts, nextId>>
    ELSE /\ isGenerating' = TRUE
         /\ pendingInserts' =
              pendingInserts \cup {InsertRequest(nextId, inputValue, user)}
         /\ nextId' = nextId + 1
         /\ UNCHANGED lastAlert

\* onChange of the prompt input
SetInputValue(text) ==
    /\ mounted
    /\ text # inputValue
    /\ inputValue' = text
    /\ lastOp' = Op("SetInputValue", 0, "")
    /\ UNCHANGED <<mounted, user, supabase, projects, isLoading, credits,
                   isGenerating, runs, pendingInserts, nextId, navigations,
                   lastAlert, creditRows, projectRows>>

\* onKeyDown of the prompt input, key Enter
PressEnter ==
    /\ mounted
    /\ nextId <= MaxIds
    /\ IF Trim(inputValue) # <<>>
       THEN HandleGenerate
       ELSE UNCHANGED <<isGenerating, pendingInserts, nextId, lastAlert>>
    /\ lastOp' = Op("PressEnter", 0, "")
    /\ UNCHANGED <<mounted, user, supabase, projects, isLoading, credits,
                   inputValue, runs, navigations, creditRows, projectRows>>

\* disabled={!inputValue.trim() || isGenerating}
ButtonDisabled == Trim(inputValue) = <<>> \/ isGenerating

\* onClick of the generate button; a disabled button dispatches no click
ClickGenerate ==
    /\ mounted
    /\ nextId <= MaxIds
    /\ IF ButtonDisabled
       THEN UNCHANGED <<isGenerating, pendingInserts, nextId, lastAlert>>
       ELSE HandleGenerate
    /\ lastOp' = Op("ClickGenerate", 0, "")
    /\ UNCHANGED <<mounted, user, supabase, projects, isLoading, credits,
                   inputValue, runs, navigations, creditRows, projectRows>>

\* projectError left unchecked: the flow goes on to navigate
ProjectErrorIgnored(outcome) == FALSE

\* if (projectError) { ... throw ... }
ProjectErrorThrown(outcome) == outcome # "ok"

\* the store's message dropped for the handler's generic text
GenericFailedAlert(message) == "generation failed, please retry"

\* new Error(`<create failed>: ${projectError.message}`), then alert(error.message)
CreateFailedAlert(message) == CreateFailedPrefix \o message

\* setIsGenerating(false) moved to a finally block
GeneratingResetAlways(outcome, generating) == FALSE

\* isGenerating once the insert has settled: setIsGenerating(false) is in the
\* catch block only
GeneratingAfterSettle(outcome, generating) ==
    IF ProjectErrorThrown(outcome) THEN FALSE ELSE generating

\* the project insert of request req settles with outcome "ok" or with an
\* error message; handleGenerate runs to its end
ProjectInsertSettle(req, outcome) ==
    /\ req \in pendingInserts
    /\ pendingInserts' = pendingInserts \ {req}
    /\ projectRows' =
         IF outcome = "ok"
         THEN Append(projectRows,
                     [id |-> req.id, user_id |-> req.user, title |-> req.title])
         ELSE projectRows
    /\ IF ProjectErrorThrown(outcome)
       THEN \* catch
            /\ lastAlert' = CreateFailedAlert(outcome)
            /\ UNCHANGED navigations
       ELSE /\ navigations' = Append(navigations, CanvasUrl(req.id, req.input))
            /\ UNCHANGED lastAlert
    /\ isGenerating' = GeneratingAfterSettle(outcome, isGenerating)
    /\ lastOp' = Op("ProjectInsertSettle", req.id, outcome)
    /\ UNCHANGED <<mounted, user, supabase, projects, isLoading, credits,
                   inputValue, runs, nextId, creditRows>>

-----------------------------------------------------------------------------
(* The specification *)

\* the rows of user_credits when the page loads: u1 may have a record from an
\* earlier session, u2 has none
InitCreditRows ==
    {<<>>} \cup {<<[user_id |-> "u1", credits |-> b]>> : b \in InitBalances}

\* a project of u2 made in an earlier session
SeedProjectRows == <<[id |-> 0, user_id |-> "u2", title |-> <<"a">>]>>

Init ==
    /\ mounted = FALSE
    /\ user \in Users \cup {NoUser}
    /\ supabase \in {0, 1}
    /\ projects = <<>>
    /\ isLoading = TRUE
    /\ credits = None
    /\ inputValue = <<>>
    /\ isGenerating = FALSE
    /\ runs = <<>>
    /\ pendingInserts = {}
    /\ nextId = 1
    /\ navigations = <<>>
    /\ lastAlert = NoAlert
    /\ creditRows \in InitCreditRows
    /\ projectRows = SeedProjectRows
    /\ lastOp = Op("Init", 0, "")

\* the auth provider and the handle hook, and the mount
Environment ==
    \/ Mount
    \/ \E u \in Users \cup {NoUser} : UserChanged(u)
    \/ SupabaseChanged

\* the responses to the requests of loadData
LoadResponses ==
    \/ \E r \in 1..MaxRuns : ProjectsReadSettle(r)
    \/ \E r \in 1..MaxRuns : CreditsReadSettle(r)
    \/ \E r \in 1..MaxRuns : CreditInsertSettle(r)

\* the user at the prompt input, and the responses to handleGenerate's insert
Creation ==
    \/ \E text \in Texts(MaxLen) : SetInputValue(text)
    \/ PressEnter
    \/ ClickGenerate
    \/ \E req \in pendingInserts, outcome \in {"ok"} \cup Messages :
         ProjectInsertSettle(req, outcome)

Next == Environment \/ LoadResponses \/ Creation

Spec == Init /\ [][Next]_vars

\* The load effect alone: nobody touches the prompt input. The creation flow
\* writes nothing loadData reads except the rows a listing returns.
NextLoad == Environment \/ LoadResponses

SpecLoad == Init /\ [][NextLoad]_vars

\* The creation flow alone: the responses to loadData's requests are not
\* delivered. loadData writes nothing handleGenerate reads.
NextCreate == Environment \/ Creation

SpecCreate == Init /\ [][NextCreate]_vars

TypeOK ==
    /\ mounted \in BOOLEAN
    /\ user \in Users \cup {NoUser}
    /\ supabase \in 0..(MaxRuns + 1)
    /\ isLoading \in BOOLEAN
    /\ isGenerating \in BOOLEAN
    /\ Len(runs) <= MaxRuns
    /\ nextId \in 1..(MaxIds + 1)

-----------------------------------------------------------------------------
(* Properties of the project creation flow, checked under SpecCreate *)

IsBlank(text) == \A i \in 1..Len(text) : text[i] = " "

IsSubmit(op) == op.op \in {"PressEnter", "ClickGenerate"}

\* C1: every navigation carries the id of a project whose insert has come
\* back without an error: the row is in the store, the request is no longer
\* awaited, and no navigation happens without such an insert.
NavigationOnlyAfterInsert ==
    \A i \in 1..Len(navigations) :
        /\ \E j \in 1..Len(projectRows) : projectRows[j].id = navigations[i].id
        /\ \A req \in pendingInserts : req.id # navigations[i].id

\* a project was inserted and the page navigated to it
WitnessNavigated ==
    /\ lastOp.op = "ProjectInsertSettle" /\ lastOp.msg = "ok"
    /\ Len(navigations) = 1
    /\ navigations[1].id = lastOp.n

\* C2: at most one project insert of handleGenerate is outstanding at any
\* time, and a submission (Enter or click) that arrives while one is
\* outstanding issues no insert and no navigation.
OneCreationInFlight ==
    [][/\ Cardinality(pendingInserts') <= 1
       /\ (IsSubmit(lastOp') /\ pendingInserts # {})
            => /\ pendingInserts' = pendingInserts
               /\ nextId' = nextId
               /\ navigations' = navigations
               /\ projectRows' = projectRows]_vars

\* Enter was pressed on a non-blank text typed after the submission that is
\* still awaiting its insert
WitnessSubmitWhilePending ==
    /\ lastOp.op = "PressEnter"
    /\ ~IsBlank(inputValue)
    /\ \E req \in pendingInserts : req.input # inputValue

\* C3: when the project insert fails with the store's message M, the alert
\* shows the create-failed text followed by M, isGenerating is false again,
\* and the page has not navigated to that project.
InsertFailureReported ==
    (lastOp.op = "ProjectInsertSettle" /\ lastOp.msg # "ok")
        => /\ lastAlert = CreateFailedPrefix \o lastOp.msg
           /\ isGenerating = FALSE
           /\ \A i \in 1..Len(navigations) : navigations[i].id # lastOp.n

\* the second attempt failed too: the first failure had reopened the flow
WitnessRetryAfterFailure ==
    /\ lastOp = Op("ProjectInsertSettle", 2, "network error")
    /\ lastAlert = CreateFailedPrefix \o "network error"
    /\ ~isGenerating

\* C4: a submission (Enter or click) on an empty or whitespace-only text
\* issues no insert, does not navigate and leaves isGenerating as it was, so
\* false when no creation is in flight.
BlankSubmitDoesNothing ==
    [][(IsSubmit(lastOp') /\ IsBlank(inputValue))
         => /\ pendingInserts' = pendingInserts
            /\ nextId' = nextId
            /\ navigations' = navigations
            /\ projectRows' = projectRows
            /\ isGenerating' = isGenerating]_vars

\* a whitespace-only text was submitted by a signed-in user with a ready
\* handle, and nothing is in flight
WitnessBlankSubmit ==
    /\ IsSubmit(lastOp)
    /\ inputValue = <<" ">>
    /\ user # NoUser /\ supabase # 0
    /\ ~isGenerating /\ pendingInserts = {} /\ navigations = <<>>

-----------------------------------------------------------------------------
(* Properties of the load effect, checked under SpecLoad *)

NoRows == ErrorResult(NoRowsCode)

RowsOf(u) == SelectRows(creditRows, u)

\* run r has both read results and has gone through the code after Promise.all
BothSettled(r) == Settled(runs[r].proj) /\ Settled(runs[r].cred)

\* the step just taken delivered the second read result of run lastOp.n
JustJoined ==
    /\ lastOp.op \in {"ProjectsReadSettle", "CreditsReadSettle"}
    /\ BothSettled(lastOp.n)

\* C5: a run of loadData whose credit read found no record for the identity
\* ends with exactly one credit record for it, of balance 1000, whatever the
\* project listing read returned (the store not refusing the insert).
BootstrapCreatesRecord ==
    \A r \in 1..Len(runs) :
        (runs[r].done /\ runs[r].cred = NoRows /\ runs[r].ins # "error")
            => RowsOf(runs[r].user)
                 = <<[user_id |-> runs[r].user, credits |-> DefaultCredits]>>

\* C6: a run of loadData whose credit read returned the existing balance B
\* issues no credit insert and ends with the credit state equal to B.
ExistingBalanceAdopted ==
    (JustJoined /\ runs[lastOp.n].cred.status = "ok")
        => /\ runs[lastOp.n].ins = "none"
           /\ credits = runs[lastOp.n].cred.credits

\* C7: while the project listing read or the credit read of a run is
\* outstanding, isLoading is true.
LoadingWhileOutstanding ==
    (\E r \in 1..Len(runs) : runs[r].started /\ ~BothSettled(r)) => isLoading

\* C8: no identity has more than one credit record, and a run has issued a
\* credit insert only if its own credit read came back with the no-rows code.
OneCreditRecordPerIdentity ==
    /\ \A u \in Users : Len(RowsOf(u)) <= 1
    /\ \A r \in 1..Len(runs) : runs[r].ins # "none" => runs[r].cred = NoRows

\* two runs for the same identity both read no rows and both inserted: the
\* store kept the first record and refused the second
WitnessOverlappingBootstrap ==
    \E r1, r2 \in 1..Len(runs) :
        /\ runs[r1].user = runs[r2].user
        /\ runs[r1].ins = "ok" /\ runs[r2].ins = "error"
        /\ Len(RowsOf(runs[r1].user)) = 1

\* C9: the credit steps follow the credit read result and the project list
\* follows the listing result, each whatever the other read returned.
FlowsIndependent ==
    JustJoined =>
        LET run == runs[lastOp.n] IN
        /\ run.cred.status = "ok" => credits = run.cred.credits
        /\ run.cred = NoRows => run.ins # "none"
        /\ run.proj.status = "ok" => projects = run.proj.data

\* C10: when the insert of the default credit record fails, the credit state
\* is left as it was (null on a first load).
FailedBootstrapLeavesCredits ==
    [][(lastOp'.op = "CreditInsertSettle" /\ runs'[lastOp'.n].ins = "error")
         => credits' = credits]_vars

\* C11: when the credit read of a run fails with an error other than the
\* no-rows code, the run issues no credit insert, leaves the credit state and
\* the credit records as they were, and clears isLoading.
OtherErrorAbortsQuietly ==
    [][(/\ lastOp'.op \in {"ProjectsReadSettle", "CreditsReadSettle"}
        /\ Settled(runs'[lastOp'.n].proj) /\ Settled(runs'[lastOp'.n].cred)
        /\ runs'[lastOp'.n].cred.status = "error"
        /\ runs'[lastOp'.n].cred.code # NoRowsCode)
         => /\ runs'[lastOp'.n].ins = "none"
            /\ runs'[lastOp'.n].done
            /\ credits' = credits
            /\ creditRows' = creditRows
            /\ isLoading' = FALSE]_vars

\* a first load whose listing succeeded and whose credit read failed with
\* another error: the list is stored, nothing is shown as credits
WitnessOtherError ==
    /\ JustJoined
    /\ Len(runs) = 1
    /\ runs[1].proj.status = "ok"
    /\ runs[1].cred = ErrorResult(OtherCode)
    /\ credits = None /\ ~isLoading /\ runs[1].ins = "none"

-----------------------------------------------------------------------------
(* Properties of both flows without an identity or a handle, under SpecCreate *)

IsEffectRun(op) == op.op \in {"Mount", "UserChanged", "SupabaseChanged"}

NothingCreated ==
    /\ pendingInserts' = pendingInserts
    /\ nextId' = nextId
    /\ navigations' = navigations
    /\ projectRows' = projectRows
    /\ isGenerating' = FALSE

\* C12: without an identity or without a handle no store request is issued.
\* A run of the load effect then issues no read and no insert and clears
\* isLoading. A non-blank submission, no creation being in flight, alerts
\* the not-signed-in text when the identity is missing and the distinct
\* not-ready text when only the handle is missing; either way it issues no
\* insert, does not navigate and leaves isGenerating false.
NoStoreAccessUntilReady ==
    [][/\ (IsEffectRun(lastOp') /\ (user' = NoUser \/ supabase' = 0))
            => /\ ~runs'[lastOp'.n].started
               /\ runs'[lastOp'.n].ins = "none"
               /\ creditRows' = creditRows
               /\ isLoading' = FALSE
       /\ (IsSubmit(lastOp') /\ ~IsBlank(inputValue) /\ ~isGenerating
              /\ user = NoUser)
            => lastAlert' = AlertNotSignedIn /\ NothingCreated
       /\ (IsSubmit(lastOp') /\ ~IsBlank(inputValue) /\ ~isGenerating
              /\ user # NoUser /\ supabase = 0)
            => /\ lastAlert' = AlertNotReady
               /\ AlertNotReady # AlertNotSignedIn
               /\ NothingCreated]_vars

\* a signed-in user whose handle never became ready submitted a text: the
\* load had returned early, the submission was answered with the not-ready
\* alert
WitnessSubmitWithoutHandle ==
    /\ IsSubmit(lastOp)
    /\ ~IsBlank(inputValue)
    /\ user # NoUser /\ supabase = 0
    /\ lastAlert = AlertNotReady
    /\ \A r \in 1..Len(runs) : ~runs[r].started
    /\ ~isLoading /\ ~isGenerating /\ pendingInserts = {}

-----------------------------------------------------------------------------
(* The title of an inserted project, checked under SpecTitle: a signed-in   *)
(* user with a ready handle types prompts around the title limit            *)

Blanks(k) == [i \in 1..k |-> " "]

\* n characters that begin and end with a letter, with blanks inside
Body(n) ==
    [i \in 1..n |-> IF i % 7 = 0 /\ i < n THEN " "
                    ELSE IF i % 2 = 1 THEN "a" ELSE "b"]

BodyLengths == {0, 1} \cup ((TitleLimit - 1)..(TitleLimit + MaxOver))

Prompts ==
    {Blanks(l) \o Body(n) \o Blanks(t) : l \in 0..MaxPad, t \in 0..MaxPad,
                                         n \in BodyLengths}

InitTitle == Init /\ user = "u1" /\ supabase = 1 /\ creditRows = <<>>

NextTitle ==
    \/ Mount
    \/ \E text \in Prompts : SetInputValue(text)
    \/ PressEnter
    \/ ClickGenerate
    \/ \E req \in pendingInserts, outcome \in {"ok"} \cup Messages :
         ProjectInsertSettle(req, outcome)

SpecTitle == InitTitle /\ [][NextTitle]_vars

\* the text between its first and its last non-blank character
Core(text) ==
    LET idx == {i \in 1..Len(text) : text[i] # " "} IN
    IF idx = {} THEN <<>>
    ELSE LET lo == CHOOSE i \in idx : \A j \in idx : i <= j
             hi == CHOOSE i \in idx : \A j \in idx : j <= i
         IN [k \in 1..(hi - lo + 1) |-> text[lo + k - 1]]

First50(text) == IF Len(text) <= 50 THEN text ELSE [k \in 1..50 |-> text[k]]

\* C13: the title of every project insert is the first 50 characters of the
\* trimmed prompt (all of it when it has at most 50), so every title sent or
\* stored is non-empty, at most 50 characters long and never the fallback.
TitleIsPromptPrefix ==
    /\ \A req \in pendingInserts :
         /\ req.title = First50(Core(req.input))
         /\ req.title # <<>> /\ req.title # FallbackTitle
         /\ Len(req.title) <= 50
    /\ \A j \in 1..Len(projectRows) :
         projectRows[j].id >= 1 =>
            /\ projectRows[j].title # <<>>
            /\ projectRows[j].title # FallbackTitle
            /\ Len(projectRows[j].title) <= 50

\* the insert issued for a padded prompt longer than 50 characters carries a
\* title of exactly 50
WitnessTitleCut ==
    \E req \in pendingInserts :
        /\ Head(req.input) = " "
        /\ Len(Core(req.input)) > 50
        /\ Len(req.title) = 50

-----------------------------------------------------------------------------
(* The in-flight flag after a successful insert, checked under SpecCreate *)

StoredByThisPage == {j \in 1..Len(projectRows) : projectRows[j].id >= 1}

\* C14: once a project insert has succeeded, isGenerating stays true: every
\* later submission is rejected, the page navigates once and stores at most
\* one project; the flag goes back to false only when an insert has failed.
FlagKeptAfterSuccess ==
    [][/\ Len(navigations) >= 1 => isGenerating /\ isGenerating'
       /\ Len(navigations') >= 1
            => /\ isGenerating'
               /\ Len(navigations') = 1
               /\ pendingInserts' = {}
       /\ Cardinality(StoredByThisPage') <= 1
       /\ (IsSubmit(lastOp') /\ Len(navigations) >= 1)
            => /\ pendingInserts' = pendingInserts
               /\ nextId' = nextId
               /\ projectRows' = projectRows
       /\ (isGenerating /\ ~isGenerating')
            => lastOp'.op = "ProjectInsertSettle" /\ lastOp'.msg # "ok"]_vars

\* after the first and only insert succeeded, a signed-in user with a ready
\* handle submitted a non-blank text again and nothing was issued
WitnessSubmitAfterSuccess ==
    /\ IsSubmit(lastOp)
    /\ ~IsBlank(inputValue)
    /\ user # NoUser /\ supabase # 0
    /\ Len(navigations) = 1 /\ nextId = 2
    /\ isGenerating /\ pendingInserts = {}

-----------------------------------------------------------------------------
(* Overlapping runs of the load effect, checked under SpecLoad *)

\* the balance the store returned to run r: the one read, or the one inserted
BalanceReturned(r) ==
    IF runs[r].cred.status = "ok" THEN runs[r].cred.credits
    ELSE Some(DefaultCredits)

\* run r got a project list and a balance from the store
Answered(r) ==
    /\ runs[r].started /\ runs[r].done
    /\ runs[r].proj.status = "ok"
    /\ runs[r].cred.status = "ok" \/ runs[r].ins = "ok"

\* C15: when the effect has run again and every run has got its answers,
\* the stored project list and credit balance are those returned to the run
\* that started last.
LatestRunWins ==
    (Len(runs) >= 2 /\ \A r \in 1..Len(runs) : Answered(r))
        => /\ projects = runs[Len(runs)].proj.data
           /\ credits = BalanceReturned(Len(runs))

====
